---- MODULE Spec2Model ----
(***************************************************************************)
(* A model of the vkPost command-line tools:                               *)
(*   - vk_group_bot.py  : main(), ensure_user_access_token(),              *)
(*                        refresh_access_token(), upload_photos_for_wall() *)
(*   - get_vk_token.py  : main() (the PKCE flow), parse_redirect_url(),    *)
(*                        exchange_code_for_token()                        *)
(* Both programs are single-threaded and run once; the remote services and *)
(* the operator's environment are the nondeterministic inputs.             *)
(***************************************************************************)
EXTENDS Integers, Sequences, FiniteSets, TLC

(***************************************************************************)
(* Bounds                                                                  *)
(***************************************************************************)
MaxImages == 2

(***************************************************************************)
(* Python values.  None is Python's None (also a JSON null); Absent is a   *)
(* key that a JSON object does not have.  Optional integers are modelled   *)
(* as sequences: <<>> is None, <<n>> is the integer n.                     *)
(***************************************************************************)
None == "None"
Absent == "Absent"

Truthy(x) == x # None /\ x # Absent /\ x # ""
TruthyInt(o) == o # <<>> /\ o[1] # 0
Get(v) == IF v = Absent THEN None ELSE v

(***************************************************************************)
(* Inputs of vk_group_bot.py: the environment, the command line and the    *)
(* answers of the remote services.                                         *)
(***************************************************************************)
GroupIdStrings == {None, "abc", "0", "7"}
MessageOutcomes == {"text", "empty", "error"}
\* VK_GROUP_TOKEN and VK_USER_TOKEN are only tested for truthiness: unset
\* stands for an empty value too.
GroupTokens == {None, "G"}
RefreshTokens == {None, "R0"}
ClientIds == {None, "cid"}
ClientSecrets == {None, "sec"}
AccessTokens == {None, "", "U0"}
Sources == {"http://a", "b.jpg"}
EditArgs == {<<>>, <<0>>, <<5>>}

\* f"photo{owner_id}_{photo_id}" (vk_group_bot.py:140)
Attachment(owner_id, photo_id) == <<"photo", owner_id, "_", photo_id>>

\* args.attachments; <<>> when no --attachment is given.
ArgsAttachments == {<<>>, <<Attachment(-7, 9)>>}

SeqsUpTo(S, n) == UNION {[1..k -> S] : k \in 0..n}

ImageLists == SeqsUpTo(Sources, MaxImages)

\* JSON bodies the token endpoint may answer a refresh request with.
RefreshBodies ==
  [error : {Absent, "invalid_grant"},
   access_token : {Absent, "", "U1"},
   refresh_token : {Absent, "", "R0", "R1"},
   expires_in : {<<>>, <<0>>}]

TransportFailure == [transport |-> "failed"]

RefreshResponses == RefreshBodies \cup {TransportFailure}

IsTransportFailure(resp) == resp = TransportFailure

\* Answers of a VK API method as vk_request sees them (vk_group_bot.py:46-63).
ApiFailures == {"api_error", "transport", "malformed"}

\* The photo objects photos.saveWallPhoto may describe.
PhotoA == [owner_id |-> -7, id |-> 1]
PhotoB == [owner_id |-> -8, id |-> 2]

\* The lists of photo objects photos.saveWallPhoto may answer with.
SavedLists == {<<>>, <<PhotoA>>, <<PhotoB>>, <<PhotoB, PhotoA>>}

\* What vk_request("photos.saveWallPhoto") gives: a list of photo objects, or
\* an exception.
SavedAnswers ==
  [kind : {"ok"}, response : SavedLists] \cup [kind : ApiFailures, response : {<<>>}]

\* JSON bodies of the upload server: which of photo/server/hash are there.
UploadBodies == [photo : BOOLEAN, server : BOOLEAN, hash : BOOLEAN]

VARIABLES
  pc,                       \* position in main()
  group_id_str,             \* VK_GROUP_ID
  message_outcome,          \* what read_message_from_args(args).strip() gives
  group_token,              \* VK_GROUP_TOKEN
  refresh_token,            \* VK_USER_TOKEN (nonlocal in ensure_user_access_token)
  oauth_client_id,          \* VK_OAUTH_CLIENT_ID
  oauth_client_secret,      \* VK_OAUTH_CLIENT_SECRET
  user_access_token,        \* VK_ACCESS_TOKEN, then the refreshed token
  env_access_token,         \* VK_ACCESS_TOKEN as the environment set it
  env_refresh_token,        \* VK_USER_TOKEN as the environment set it
  image_sources,            \* args.images or []
  edit,                     \* args.edit
  args_attachments,         \* args.attachments
  attachments,              \* main's attachments list
  access_token_for_upload,  \* main's local; Unbound until assigned
  wall_token,               \* main's local
  i,                        \* index of the image in the loop of upload_photos_for_wall
  uploaded,                 \* upload_photos_for_wall's attachments list
  upload_result,            \* the upload server's answer for image i
  upload_error,             \* the step of the upload that raised, or "none"
  token_data,               \* the last answer of the token endpoint
  refresh_result,           \* what refresh_access_token returned or raised
  calls,                    \* every request made, in order
  stderr,                   \* refresh tokens printed for the operator
  result                    \* how main ended

botvars == <<pc, group_id_str, message_outcome, group_token, refresh_token,
             oauth_client_id, oauth_client_secret, user_access_token,
             env_access_token, env_refresh_token,
             image_sources, edit, args_attachments, attachments,
             access_token_for_upload,
             wall_token, i, uploaded, upload_result, upload_error, token_data,
             refresh_result, calls, stderr, result>>

VARIABLES
  ppc,                      \* position in get_vk_token.main()
  client_id,                \* VK_OAUTH_CLIENT_ID as get_config_from_env reads it
  code_verifier,            \* main's code_verifier
  code_challenge,           \* main's code_challenge
  auth_url,                 \* the query parameters of the printed authorization URL
  redirect_url,             \* what the operator typed, stripped
  code,                     \* parse_redirect_url's first result
  device_id,                \* parse_redirect_url's second result
  exchange_result,          \* what exchange_code_for_token returned or raised
  generated,                \* every verifier/challenge pair generated, in order
  pkce_calls,               \* every request to the token endpoint, in order
  pkce_stderr,              \* the error messages printed
  pkce_result               \* how main ended

pkcevars == <<ppc, client_id, code_verifier, code_challenge, auth_url,
              redirect_url, code, device_id, exchange_result, generated,
              pkce_calls, pkce_stderr, pkce_result>>

VARIABLES
  requested,                \* the length a caller passes to generate_code_verifier
  produced                  \* what that call returned or raised

verifiervars == <<requested, produced>>

vars == <<botvars, pkcevars, verifiervars>>

Unbound == "Unbound"
NotCalled == [raised |-> "not called"]

(***************************************************************************)
(* vk_group_bot.py                                                         *)
(***************************************************************************)
Call(ep, idx, token, data) == [ep |-> ep, i |-> idx, token |-> token, data |-> data]

\* A refresh that does not check that an access_token came back.
refresh_unchecked(resp) ==
  IF IsTransportFailure(resp) THEN [raised |-> "RequestException"]
  ELSE IF resp.error # Absent THEN [raised |-> "VkApiError"]
  ELSE [raised |-> "no",
        access_token |-> Get(resp.access_token),
        new_refresh |-> Get(resp.refresh_token),
        expires_in |-> resp.expires_in]

\* refresh_access_token, lines 283-300: the answer of requests.post is resp.
refresh_access_token(resp) ==
  IF IsTransportFailure(resp) THEN [raised |-> "RequestException"]
  ELSE IF resp.error # Absent THEN [raised |-> "VkApiError"]
  ELSE IF ~Truthy(Get(resp.access_token)) THEN [raised |-> "VkApiError"]
  ELSE [raised |-> "no",
        access_token |-> Get(resp.access_token),
        new_refresh |-> Get(resp.refresh_token),
        expires_in |-> resp.expires_in]

\* A test that forgets to compare the new refresh token with the old one.
RotatedUncompared(new_refresh, rt) == Truthy(new_refresh)

\* The test of line 382: a new refresh token was issued.
Rotated(new_refresh, rt) == Truthy(new_refresh) /\ new_refresh # rt

\* A test for None where the code tests for an empty value.
CachedIsNotNone(uat) == uat # None

\* Line 361: a user access token is already there.
Cached(uat) == Truthy(uat)

\* A check of the refresh token that forgets the client credentials.
RefreshTokenOnly(rt, cid, secret) == Truthy(rt)

\* Lines 364-373: the refresh token and both client credentials are set.
RefreshConfigured(rt, cid, secret) == Truthy(rt) /\ Truthy(cid) /\ Truthy(secret)

\* ensure_user_access_token reaches the token endpoint (lines 361-375).
NeedsRefresh(uat, rt, cid, secret) ==
  ~Cached(uat) /\ RefreshConfigured(rt, cid, secret)

\* ensure_user_access_token: its effect on the two nonlocals, what it returns
\* or raises, the request it makes and what it prints, given the answer resp
\* of the token endpoint (used only when the endpoint is called).
ensure_user_access_token(uat, rt, cid, secret, resp) ==
  LET same == [raised |-> "no", token |-> uat, uat |-> uat, rt |-> rt,
               request |-> <<>>, printed |-> <<>>,
               td |-> token_data, rr |-> refresh_result]
  IN IF Cached(uat) THEN same
     ELSE IF ~RefreshConfigured(rt, cid, secret)
       THEN [same EXCEPT !.raised = "VkApiError"]
     ELSE LET r == refresh_access_token(resp)
              req == <<Call("token", 0, rt, resp)>>
          IN IF r.raised # "no"
               THEN [same EXCEPT !.raised = r.raised, !.request = req,
                                 !.td = resp, !.rr = r]
               ELSE [raised |-> "no",
                     token |-> r.access_token,
                     uat |-> r.access_token,
                     rt |-> IF Rotated(r.new_refresh, rt) THEN r.new_refresh ELSE rt,
                     request |-> req,
                     printed |-> IF Rotated(r.new_refresh, rt)
                                   THEN <<r.new_refresh>> ELSE <<>>,
                     td |-> resp,
                     rr |-> r]

\* The answers of the token endpoint that matter to a call of
\* ensure_user_access_token: one placeholder when the endpoint is not called.
TokenAnswers(uat, rt, cid, secret) ==
  IF NeedsRefresh(uat, rt, cid, secret) THEN RefreshResponses ELSE {TransportFailure}

\* int(group_id_str) > 0 (lines 315-333)
GroupIdValid(s) == s = "7"

\* The condition of line 397.
NeedsUserToken(images, e) == images # <<>> \/ TruthyInt(e)

\* A selection that prefers the user access token over the community token.
WallTokenPrefersUser(gt, uat) == IF Truthy(uat) THEN uat ELSE gt

\* Line 413.
WallTokenChoice(gt, uat) == IF Truthy(gt) THEN gt ELSE uat

\* _load_binary_from_source, line 73.
IsUrl(source) == source \in {"http://a"}

BotInit ==
  /\ pc = "start"
  /\ group_id_str \in GroupIdStrings
  /\ message_outcome \in MessageOutcomes
  /\ group_token \in GroupTokens
  /\ refresh_token \in RefreshTokens
  /\ oauth_client_id \in ClientIds
  /\ oauth_client_secret \in ClientSecrets
  /\ user_access_token \in AccessTokens
  /\ env_access_token = user_access_token
  /\ env_refresh_token = refresh_token
  /\ image_sources \in ImageLists
  /\ edit \in EditArgs
  /\ args_attachments \in ArgsAttachments
  /\ attachments = <<>>
  /\ access_token_for_upload = Unbound
  /\ wall_token = Unbound
  /\ i = 0
  /\ uploaded = <<>>
  /\ upload_result = None
  /\ upload_error = "none"
  /\ token_data = None
  /\ refresh_result = NotCalled
  /\ calls = <<>>
  /\ stderr = <<>>
  /\ result = "running"

Finish(r) == pc' = "done" /\ result' = r

\* Lines 315-333: VK_GROUP_ID is missing or not a positive number.
CheckGroupId ==
  /\ pc = "start"
  /\ UNCHANGED pkcevars
  /\ UNCHANGED verifiervars
  /\ IF GroupIdValid(group_id_str)
       THEN pc' = "read_message" /\ UNCHANGED result
       ELSE Finish("return 1")
  /\ UNCHANGED <<group_id_str, message_outcome, group_token, refresh_token,
                 oauth_client_id, oauth_client_secret, user_access_token,
                 env_access_token, env_refresh_token,
                 image_sources, edit, args_attachments, attachments,
                 access_token_for_upload,
                 wall_token, i, uploaded, upload_result, upload_error,
                 token_data, refresh_result, calls, stderr>>

\* Lines 335-351: the text of the post, then the ready-made attachments.
ReadMessage ==
  /\ pc = "read_message"
  /\ UNCHANGED pkcevars
  /\ UNCHANGED verifiervars
  /\ IF message_outcome = "text"
       THEN /\ pc' = "ensure"
            /\ attachments' = <<>> \o args_attachments
            /\ UNCHANGED result
       ELSE Finish("return 1") /\ UNCHANGED attachments
  /\ UNCHANGED <<group_id_str, message_outcome, group_token, refresh_token,
                 oauth_client_id, oauth_client_secret, user_access_token,
                 env_access_token, env_refresh_token,
                 image_sources, edit, args_attachments, access_token_for_upload,
                 wall_token, i, uploaded, upload_result, upload_error,
                 token_data, refresh_result, calls, stderr>>

\* Lines 395-398: images or --edit need the user access token; an exception
\* of ensure_user_access_token is not caught here and leaves main.
EnsureForUpload ==
  /\ pc = "ensure"
  /\ UNCHANGED pkcevars
  /\ UNCHANGED verifiervars
  /\ IF NeedsUserToken(image_sources, edit)
       THEN \E resp \in TokenAnswers(user_access_token, refresh_token,
                                     oauth_client_id, oauth_client_secret) :
              LET e == ensure_user_access_token(user_access_token, refresh_token,
                         oauth_client_id, oauth_client_secret, resp)
              IN /\ user_access_token' = e.uat
                 /\ refresh_token' = e.rt
                 /\ calls' = calls \o e.request
                 /\ stderr' = stderr \o e.printed
                 /\ token_data' = e.td
                 /\ refresh_result' = e.rr
                 /\ IF e.raised # "no"
                      THEN Finish("raised") /\ UNCHANGED access_token_for_upload
                      ELSE /\ access_token_for_upload' = e.token
                           /\ pc' = "upload"
                           /\ UNCHANGED result
       ELSE /\ pc' = "upload"
            /\ UNCHANGED <<user_access_token, refresh_token, calls, stderr,
                           token_data, refresh_result, access_token_for_upload,
                           result>>
  /\ UNCHANGED <<group_id_str, message_outcome, group_token,
                 oauth_client_id, oauth_client_secret,
                 env_access_token, env_refresh_token,
                 image_sources, edit, args_attachments, attachments,
                 wall_token, i, uploaded, upload_result, upload_error>>

\* The variables no step after the start of main assigns.
inputs == <<group_id_str, message_outcome, group_token, oauth_client_id,
            oauth_client_secret, image_sources, edit, args_attachments,
            env_access_token, env_refresh_token>>

\* The variables only ensure_user_access_token assigns.
session == <<user_access_token, refresh_token, stderr, token_data, refresh_result>>

\* A loop that takes the same image again.
SameIndex(idx) == idx

\* Line 111: the loop goes on to the next image.
NextIndex(idx) == idx + 1

\* An insertion at the front of the list.
PrependAttachment(list, a) == <<a>> \o list

\* Line 140: attachments.append(...).
AppendAttachment(list, a) == Append(list, a)

\* upload_photos_for_wall raised: line 408 catches it, main returns 1.
UploadRaised(step) ==
  /\ upload_error' = step
  /\ Finish("return 1")

\* Lines 400-407 and 95-109: no images, or the request for the upload server.
GetWallUploadServer ==
  /\ pc = "upload"
  /\ UNCHANGED pkcevars
  /\ UNCHANGED verifiervars
  /\ IF image_sources = <<>>
       THEN /\ pc' = "select"
            /\ UNCHANGED <<calls, i, upload_error, result>>
       ELSE \E answer \in {"ok"} \cup ApiFailures :
              /\ calls' = Append(calls, Call("photos.getWallUploadServer", 0,
                                             access_token_for_upload, <<answer>>))
              /\ IF answer = "ok"
                   THEN pc' = "load" /\ i' = 1 /\ UNCHANGED <<upload_error, result>>
                   ELSE UploadRaised("server") /\ UNCHANGED i
  /\ UNCHANGED <<inputs, session, attachments, access_token_for_upload,
                 wall_token, uploaded, upload_result>>

\* Lines 111-112 and 66-81: the bytes of image i, from a URL or a local file.
LoadBinary ==
  /\ pc = "load"
  /\ UNCHANGED pkcevars
  /\ UNCHANGED verifiervars
  /\ \E answer \in {"ok", "failed"} :
       /\ calls' = Append(calls, Call(IF IsUrl(image_sources[i])
                                        THEN "requests.get" ELSE "open", i,
                                      None, <<image_sources[i], answer>>))
       /\ IF answer = "ok"
            THEN pc' = "post_file" /\ UNCHANGED <<upload_error, result>>
            ELSE UploadRaised("load")
  /\ UNCHANGED <<inputs, session, attachments, access_token_for_upload,
                 wall_token, i, uploaded, upload_result>>

\* A validation that looks at the photo field only.
UploadResultHasPhoto(body) == body.photo

\* Line 119.
UploadResultValid(body) == body.photo /\ body.server /\ body.hash

\* Lines 114-120: the POST of image i to the upload URL and the check of its answer.
PostFile ==
  /\ pc = "post_file"
  /\ UNCHANGED pkcevars
  /\ UNCHANGED verifiervars
  /\ \E body \in UploadBodies \cup {TransportFailure} :
       /\ calls' = Append(calls, Call("upload", i, None, <<body>>))
       /\ upload_result' = body
       /\ IF IsTransportFailure(body) THEN UploadRaised("post")
          ELSE IF ~UploadResultValid(body) THEN UploadRaised("validate")
          ELSE pc' = "save" /\ UNCHANGED <<upload_error, result>>
  /\ UNCHANGED <<inputs, session, attachments, access_token_for_upload,
                 wall_token, i, uploaded>>

\* Lines 122-142 and 407: photos.saveWallPhoto for image i, the attachment
\* string of its first photo object, then the next image or the return.
SaveWallPhoto ==
  /\ pc = "save"
  /\ UNCHANGED pkcevars
  /\ UNCHANGED verifiervars
  /\ \E answer \in SavedAnswers :
       /\ calls' = Append(calls, Call("photos.saveWallPhoto", i,
                                      access_token_for_upload, <<answer>>))
       /\ IF answer.kind = "ok" /\ answer.response # <<>>
            THEN LET photo_obj == answer.response[1]
                     appended == AppendAttachment(uploaded,
                                   Attachment(photo_obj.owner_id, photo_obj.id))
                 IN /\ uploaded' = appended
                    /\ IF i < Len(image_sources)
                         THEN /\ i' = NextIndex(i)
                              /\ pc' = "load"
                              /\ UNCHANGED attachments
                         ELSE /\ attachments' = attachments \o appended
                              /\ pc' = "select"
                              /\ UNCHANGED i
                    /\ UNCHANGED <<upload_error, result>>
            ELSE UploadRaised("save") /\ UNCHANGED <<uploaded, attachments, i>>
  /\ UNCHANGED <<inputs, session, access_token_for_upload, wall_token,
                 upload_result>>

\* Lines 412-434: the token for wall.post / wall.edit; without a community
\* token and without a user access token, one is acquired here and every
\* exception of ensure_user_access_token ends main with 1.
SelectWallToken ==
  /\ pc = "select"
  /\ UNCHANGED pkcevars
  /\ UNCHANGED verifiervars
  /\ LET chosen == WallTokenChoice(group_token, user_access_token)
     IN IF chosen = None
          THEN \E resp \in TokenAnswers(user_access_token, refresh_token,
                                        oauth_client_id, oauth_client_secret) :
                 LET e == ensure_user_access_token(user_access_token, refresh_token,
                            oauth_client_id, oauth_client_secret, resp)
                 IN /\ user_access_token' = e.uat
                    /\ refresh_token' = e.rt
                    /\ calls' = calls \o e.request
                    /\ stderr' = stderr \o e.printed
                    /\ token_data' = e.td
                    /\ refresh_result' = e.rr
                    /\ IF e.raised # "no" \/ e.token = None
                         THEN Finish("return 1") /\ UNCHANGED wall_token
                         ELSE /\ wall_token' = e.token
                              /\ pc' = "wall"
                              /\ UNCHANGED result
          ELSE /\ wall_token' = chosen
               /\ pc' = "wall"
               /\ UNCHANGED <<session, calls, result>>
  /\ UNCHANGED <<inputs, attachments, access_token_for_upload, i, uploaded,
                 upload_result, upload_error>>

\* An edit that uses the token chosen for the wall, as wall.post does.
EditTokenIsWallToken(for_upload, wt) == wt

\* Line 441: the token of wall.edit.
EditToken(for_upload, wt) == IF Truthy(for_upload) THEN for_upload ELSE wt

\* What vk_request("wall.post" / "wall.edit") and the .get on its result give.
WallAnswers == {"ok"} \cup ApiFailures

\* Lines 436-462: wall.edit when --edit is given, else wall.post; VkApiError
\* and requests.RequestException end main with 1, anything else leaves main.
WallCall ==
  /\ pc = "wall"
  /\ UNCHANGED pkcevars
  /\ UNCHANGED verifiervars
  /\ IF TruthyInt(edit) /\ access_token_for_upload = Unbound
       THEN Finish("raised") /\ UNCHANGED calls
       ELSE \E answer \in WallAnswers :
              /\ calls' = Append(calls,
                   IF TruthyInt(edit)
                     THEN Call("wall.edit", 0,
                               EditToken(access_token_for_upload, wall_token),
                               <<edit[1], attachments, answer>>)
                     ELSE Call("wall.post", 0, wall_token,
                               <<attachments, answer>>))
              /\ Finish(CASE answer = "ok" -> "return 0"
                          [] answer \in {"api_error", "transport"} -> "return 1"
                          [] OTHER -> "raised")
  /\ UNCHANGED <<inputs, session, attachments, access_token_for_upload,
                 wall_token, i, uploaded, upload_result, upload_error>>

BotNext ==
  \/ CheckGroupId
  \/ ReadMessage
  \/ EnsureForUpload
  \/ GetWallUploadServer
  \/ LoadBinary
  \/ PostFile
  \/ SaveWallPhoto
  \/ SelectWallToken
  \/ WallCall

(***************************************************************************)
(* get_vk_token.py                                                         *)
(***************************************************************************)
MaxQuery == 2
MaxFragment == 2
DefaultLength == 64
MinLength == 43
MaxLength == 128

RandomBytes == {1, 2}

\* The lengths tried on generate_code_verifier: the allowed ones and a margin
\* on both sides.
LengthMargin == 3
LengthsTried == (MinLength - LengthMargin)..(MaxLength + LengthMargin)
ParamNames == {"code", "device_id"}
ParamValues == {"", "abc", "42"}
Pairs == ParamNames \X ParamValues

\* What the operator types, after .strip(): nothing, or a URL whose query and
\* fragment are the name=value pairs urlparse finds between '?', '#' and '&'.
RedirectInputs ==
  [empty : {TRUE}, query : {<<>>}, fragment : {<<>>}]
    \cup [empty : {FALSE}, query : SeqsUpTo(Pairs, MaxQuery),
          fragment : SeqsUpTo(Pairs, MaxFragment)]

\* JSON bodies the token endpoint may answer a code exchange with.
ExchangeBodies ==
  [error : {Absent, "invalid_grant"},
   error_description : {Absent, "expired"},
   access_token : {Absent, "X"},
   refresh_token : {Absent, "Y"},
   expires_in : {<<>>, <<0>>}]

ExchangeResponses == ExchangeBodies \cup {TransportFailure}

\* len(base64url_encode(data)) for n bytes: no '=' padding (line 51).
B64Len(n) == (4 * n + 2) \div 3

\* generate_code_verifier: the first len characters of the base64url text of
\* the random bytes raw, followed by pad characters 'A'.
generate_code_verifier(length, raw) ==
  IF length < MinLength \/ length > MaxLength
    THEN [raised |-> "ValueError", raw |-> raw, len |-> 0, pad |-> 0]
    ELSE LET n == B64Len(length)
         IN IF n < MinLength
              THEN [raised |-> "no", raw |-> raw, len |-> n, pad |-> MinLength - n]
              ELSE IF n > MaxLength
                THEN [raised |-> "no", raw |-> raw, len |-> MaxLength, pad |-> 0]
                ELSE [raised |-> "no", raw |-> raw, len |-> n, pad |-> 0]

\* generate_code_challenge: BASE64URL(SHA256(verifier)), as a digest that
\* depends on every part of the verifier.
generate_code_challenge(verifier) ==
  (verifier.raw * 131 + verifier.len * 7 + verifier.pad) % 257

\* get_config_from_env, lines 101-110, for a client id that is set.
Config(cid) ==
  [client_id |-> cid, redirect_uri |-> "https://oauth.vk.com/blank.html",
   scope |-> "wall,photos,groups", state |-> "vk_cli_state_12345"]

\* build_authorize_url: the query parameters of the URL.
build_authorize_url(cfg, challenge) ==
  [response_type |-> "code", client_id |-> cfg.client_id, scope |-> cfg.scope,
   redirect_uri |-> cfg.redirect_uri, state |-> cfg.state,
   code_challenge |-> challenge, code_challenge_method |-> "S256"]

\* parse_qs(...)[name]: the non-blank values of name, in order.
RECURSIVE ParseQs(_, _)
ParseQs(params, name) ==
  IF params = <<>> THEN <<>>
  ELSE LET p == Head(params)
       IN IF p[1] = name /\ p[2] # ""
            THEN <<p[2]>> \o ParseQs(Tail(params), name)
            ELSE ParseQs(Tail(params), name)

\* A lookup that reads the query string only.
get_param_query_only(url, name) ==
  LET qs == ParseQs(url.query, name)
  IN IF qs # <<>> THEN qs[1] ELSE None

\* get_param of parse_redirect_url, lines 142-147.
get_param(url, name) ==
  LET qs == ParseQs(url.query, name)
      fs == ParseQs(url.fragment, name)
  IN IF qs # <<>> THEN qs[1]
     ELSE IF fs # <<>> THEN fs[1]
     ELSE None

\* A parse that looks for device_id before it looks for code.
parse_device_id_first(url) ==
  LET c == get_param(url, "code")
      d == get_param(url, "device_id")
  IN IF ~Truthy(d)
       THEN [raised |-> "ValueError", missing |-> "device_id", code |-> None,
             device_id |-> None]
       ELSE IF ~Truthy(c)
         THEN [raised |-> "ValueError", missing |-> "code", code |-> None,
               device_id |-> None]
         ELSE [raised |-> "no", missing |-> "", code |-> c, device_id |-> d]

\* parse_redirect_url, lines 149-157.
parse_redirect_url(url) ==
  LET c == get_param(url, "code")
      d == get_param(url, "device_id")
  IN IF ~Truthy(c)
       THEN [raised |-> "ValueError", missing |-> "code", code |-> None,
             device_id |-> None]
       ELSE IF ~Truthy(d)
         THEN [raised |-> "ValueError", missing |-> "device_id", code |-> None,
               device_id |-> None]
         ELSE [raised |-> "no", missing |-> "", code |-> c, device_id |-> d]

\* exchange_code_for_token, lines 192-202: the answer of requests.post is resp.
exchange_code_for_token(resp) ==
  IF IsTransportFailure(resp)
    THEN [raised |-> "RequestException", message |-> <<>>, token_data |-> resp]
    ELSE IF resp.error # Absent
      THEN [raised |-> "RuntimeError",
            message |-> <<Get(resp.error), Get(resp.error_description)>>,
            token_data |-> resp]
      ELSE [raised |-> "no", message |-> <<>>, token_data |-> resp]

\* A request that carries a verifier made anew for the exchange.
ExchangeRequestNewVerifier(cfg, c, d, verifier) ==
  [grant_type |-> "authorization_code", code |-> c,
   redirect_uri |-> cfg.redirect_uri, client_id |-> cfg.client_id,
   device_id |-> d,
   code_verifier |-> generate_code_verifier(DefaultLength, verifier.raw + 1),
   state |-> cfg.state]

\* The form of the request of exchange_code_for_token, lines 178-186.
ExchangeRequest(cfg, c, d, verifier) ==
  [grant_type |-> "authorization_code", code |-> c,
   redirect_uri |-> cfg.redirect_uri, client_id |-> cfg.client_id,
   device_id |-> d, code_verifier |-> verifier, state |-> cfg.state]

NoVerifier == [raised |-> "not generated", raw |-> 0, len |-> 0, pad |-> 0]
NoUrl == [empty |-> TRUE, query |-> <<>>, fragment |-> <<>>]
NoExchange == [raised |-> "not called", message |-> <<>>, token_data |-> TransportFailure]

PkceIdle ==
  /\ ppc = "idle"
  /\ client_id = None
  /\ code_verifier = NoVerifier
  /\ code_challenge = 0
  /\ auth_url = build_authorize_url(Config(None), 0)
  /\ redirect_url = NoUrl
  /\ code = None
  /\ device_id = None
  /\ exchange_result = NoExchange
  /\ generated = <<>>
  /\ pkce_calls = <<>>
  /\ pkce_stderr = <<>>
  /\ pkce_result = "running"

PkceInit ==
  /\ ppc = "start"
  /\ client_id \in ClientIds
  /\ code_verifier = NoVerifier
  /\ code_challenge = 0
  /\ auth_url = build_authorize_url(Config(None), 0)
  /\ redirect_url = NoUrl
  /\ code = None
  /\ device_id = None
  /\ exchange_result = NoExchange
  /\ generated = <<>>
  /\ pkce_calls = <<>>
  /\ pkce_stderr = <<>>
  /\ pkce_result = "running"

BotIdle ==
  /\ pc = "idle"
  /\ group_id_str = None
  /\ message_outcome = "error"
  /\ group_token = None
  /\ refresh_token = None
  /\ oauth_client_id = None
  /\ oauth_client_secret = None
  /\ user_access_token = None
  /\ env_access_token = None
  /\ env_refresh_token = None
  /\ image_sources = <<>>
  /\ edit = <<>>
  /\ args_attachments = <<>>
  /\ attachments = <<>>
  /\ access_token_for_upload = Unbound
  /\ wall_token = Unbound
  /\ i = 0
  /\ uploaded = <<>>
  /\ upload_result = None
  /\ upload_error = "none"
  /\ token_data = None
  /\ refresh_result = NotCalled
  /\ calls = <<>>
  /\ stderr = <<>>
  /\ result = "running"

\* No call of generate_code_verifier apart from the one of main.
VerifierIdle ==
  /\ requested = DefaultLength
  /\ produced = NoVerifier

\* A caller of generate_code_verifier with a length of its choice.
VerifierInit ==
  /\ requested \in LengthsTried
  /\ produced = NoVerifier

\* generate_code_verifier(requested), lines 54-71, for any random bytes.
GenerateVerifier ==
  /\ produced = NoVerifier
  /\ \E raw \in RandomBytes : produced' = generate_code_verifier(requested, raw)
  /\ UNCHANGED <<botvars, pkcevars, requested>>

PkceFinish(r) == ppc' = "done" /\ pkce_result' = r

\* Lines 205-232: the configuration (get_config_from_env exits with 1 when
\* VK_OAUTH_CLIENT_ID is not set), the PKCE pair and the authorization URL.
PkceStart ==
  /\ ppc = "start"
  /\ UNCHANGED botvars
  /\ UNCHANGED verifiervars
  /\ IF ~Truthy(client_id)
       THEN /\ PkceFinish("exit 1")
            /\ UNCHANGED <<code_verifier, code_challenge, auth_url, generated>>
       ELSE \E raw \in RandomBytes :
              LET v == generate_code_verifier(DefaultLength, raw)
                  ch == generate_code_challenge(v)
              IN /\ code_verifier' = v
                 /\ code_challenge' = ch
                 /\ generated' = Append(generated, <<v, ch>>)
                 /\ auth_url' = build_authorize_url(Config(client_id), ch)
                 /\ ppc' = "input"
                 /\ UNCHANGED pkce_result
  /\ UNCHANGED <<client_id, redirect_url, code, device_id, exchange_result,
                 pkce_calls, pkce_stderr>>

\* Lines 235-238: the pasted URL; empty input ends main with 1.
ReadRedirect ==
  /\ ppc = "input"
  /\ UNCHANGED botvars
  /\ UNCHANGED verifiervars
  /\ \E typed \in RedirectInputs :
       /\ redirect_url' = typed
       /\ IF typed.empty
            THEN PkceFinish("return 1") /\ pkce_stderr' = Append(pkce_stderr, <<"empty input">>)
            ELSE ppc' = "parse" /\ UNCHANGED <<pkce_result, pkce_stderr>>
  /\ UNCHANGED <<client_id, code_verifier, code_challenge, auth_url, code,
                 device_id, exchange_result, generated, pkce_calls>>

\* Lines 240-245 and 254-256: code and device_id, or the ValueError printed.
ParseRedirect ==
  /\ ppc = "parse"
  /\ UNCHANGED botvars
  /\ UNCHANGED verifiervars
  /\ LET parsed == parse_redirect_url(redirect_url)
     IN IF parsed.raised # "no"
          THEN /\ PkceFinish("return 1")
               /\ pkce_stderr' = Append(pkce_stderr, <<parsed.raised, parsed.missing>>)
               /\ UNCHANGED <<code, device_id>>
          ELSE /\ code' = parsed.code
               /\ device_id' = parsed.device_id
               /\ ppc' = "exchange"
               /\ UNCHANGED <<pkce_result, pkce_stderr>>
  /\ UNCHANGED <<client_id, code_verifier, code_challenge, auth_url,
                 redirect_url, exchange_result, generated, pkce_calls>>

\* Lines 247-256: the exchange; any exception is printed, main returns 1.
ExchangeCode ==
  /\ ppc = "exchange"
  /\ UNCHANGED botvars
  /\ UNCHANGED verifiervars
  /\ \E resp \in ExchangeResponses :
       LET r == exchange_code_for_token(resp)
       IN /\ pkce_calls' = Append(pkce_calls,
               ExchangeRequest(Config(client_id), code, device_id, code_verifier))
          /\ exchange_result' = r
          /\ IF r.raised # "no"
               THEN /\ PkceFinish("return 1")
                    /\ pkce_stderr' = Append(pkce_stderr, <<r.raised>> \o r.message)
               ELSE /\ ppc' = "report"
                    /\ UNCHANGED <<pkce_result, pkce_stderr>>
  /\ UNCHANGED <<client_id, code_verifier, code_challenge, auth_url,
                 redirect_url, code, device_id, generated>>

\* Lines 258-283: the tokens are printed, main returns 0.
Report ==
  /\ ppc = "report"
  /\ UNCHANGED botvars
  /\ UNCHANGED verifiervars
  /\ PkceFinish("return 0")
  /\ UNCHANGED <<client_id, code_verifier, code_challenge, auth_url,
                 redirect_url, code, device_id, exchange_result, generated,
                 pkce_calls, pkce_stderr>>

PkceNext ==
  \/ PkceStart
  \/ ReadRedirect
  \/ ParseRedirect
  \/ ExchangeCode
  \/ Report

(***************************************************************************)
(* Specifications: one run of vk_group_bot.py, one run of get_vk_token.py. *)
(***************************************************************************)
Init == BotInit /\ PkceIdle /\ VerifierIdle

Next == BotNext

Spec == Init /\ [][Next]_vars

InitPkce == PkceInit /\ BotIdle /\ VerifierIdle

SpecPkce == InitPkce /\ [][PkceNext]_vars

InitVerifier == VerifierInit /\ BotIdle /\ PkceIdle

NextVerifier == GenerateVerifier

SpecVerifier == InitVerifier /\ [][NextVerifier]_vars

(***************************************************************************)
(* Properties of vk_group_bot.py                                           *)
(***************************************************************************)
CallsTo(eps) == {k \in 1..Len(calls) : calls[k].ep \in eps}
Count(eps) == Cardinality(CallsTo(eps))

TokenEp == {"token"}
WallEps == {"wall.post", "wall.edit"}
LoadEps == {"requests.get", "open"}
UploadEps == {"photos.getWallUploadServer", "upload", "photos.saveWallPhoto"} \cup LoadEps

ValidInvocation == GroupIdValid(group_id_str) /\ message_outcome = "text"
Editing == TruthyInt(edit)
Failure == {"return 1", "raised"}

\* C1: with a community token configured, no images and no --edit, the token
\* endpoint is never called, wall.edit is never called, every wall.post carries
\* the community token, and a run that got past the checks of VK_GROUP_ID and
\* of the message has issued exactly one wall.post when it ends.
C1_CommunityTokenNoRefresh ==
  (Truthy(group_token) /\ image_sources = <<>> /\ ~Editing) =>
     /\ Count(TokenEp) = 0
     /\ Count({"wall.edit"}) = 0
     /\ \A k \in CallsTo({"wall.post"}) : calls[k].token = group_token
     /\ (pc = "done" /\ ValidInvocation) => Count({"wall.post"}) = 1

C1_Witness ==
  /\ pc = "done"
  /\ result = "return 0"
  /\ Truthy(group_token) /\ image_sources = <<>> /\ ~Editing
  /\ RefreshConfigured(env_refresh_token, oauth_client_id, oauth_client_secret)
  /\ env_access_token = "U0"
  /\ Count(TokenEp) = 0
  /\ \E k \in CallsTo({"wall.post"}) : calls[k].token = group_token

\* C2: when images are requested or a post is edited, every upload request
\* and every wall request is made while a user access token is held, the
\* requests of photos.* carry it, and if the environment cached no access
\* token the token endpoint was called before that request; a community token
\* changes nothing.
C2_UserTokenBeforeUploadOrWall ==
  (image_sources # <<>> \/ Editing) =>
    \A k \in CallsTo(UploadEps \cup WallEps) :
       /\ Truthy(user_access_token)
       /\ calls[k].ep \in {"photos.getWallUploadServer", "photos.saveWallPhoto"}
            => calls[k].token = user_access_token
       /\ ~Truthy(env_access_token) => \E j \in 1..(k - 1) : calls[j].ep = "token"

C2_Witness ==
  /\ image_sources # <<>>
  /\ Truthy(group_token)
  /\ env_access_token = ""
  /\ Count(TokenEp) = 1
  /\ Count({"photos.saveWallPhoto"}) > 0
  /\ Count(WallEps) = 1

\* The refresh token the answer of the token endpoint carries: None when the
\* field is missing.
Carried(resp) == IF IsTransportFailure(resp) THEN None ELSE Get(resp.refresh_token)

\* C3: after a refresh exchange that returned, if the answer carries a
\* (non-empty) refresh_token other than the one sent, the run holds the new
\* value from then on and has printed exactly that value for the operator;
\* if it carries none or the one sent, the run still holds the one sent and
\* has printed nothing.  Without an exchange the configured token is held.
C3_RefreshRotation ==
  /\ Count(TokenEp) = 0 => refresh_token = env_refresh_token /\ stderr = <<>>
  /\ \A k \in CallsTo(TokenEp) :
       LET sent == calls[k].token
           new == Carried(calls[k].data)
       IN refresh_result.raised = "no" =>
            IF Truthy(new) /\ new # sent
              THEN refresh_token = new /\ stderr = <<new>>
              ELSE refresh_token = sent /\ sent = env_refresh_token /\ stderr = <<>>

C3_Witness ==
  /\ pc = "done"
  /\ result = "return 0"
  /\ env_refresh_token = "R0"
  /\ refresh_token = "R1"
  /\ stderr = <<"R1">>
  /\ Count(WallEps) = 1

\* C4: refresh_access_token raises exactly when the request fails in
\* transport, the answer has an error field, or it has no non-empty
\* access_token; otherwise it returns the answer's access_token, refresh_token
\* (None when missing) and expires_in.  After a refresh that raised, the user
\* access token is still unset.
C4_RefreshOutcome ==
  \A k \in CallsTo(TokenEp) :
    LET resp == calls[k].data
        bad == \/ IsTransportFailure(resp)
               \/ resp.error # Absent
               \/ resp.access_token \in {Absent, None, ""}
    IN /\ token_data = resp
       /\ (refresh_result.raised # "no") <=> bad
       /\ ~bad => /\ refresh_result.access_token = resp.access_token
                  /\ refresh_result.new_refresh =
                       (IF resp.refresh_token = Absent THEN None ELSE resp.refresh_token)
                  /\ refresh_result.expires_in = resp.expires_in
                  /\ user_access_token = resp.access_token
       /\ bad => user_access_token \in {None, ""}

C4_Witness ==
  /\ Count(TokenEp) = 1
  /\ refresh_result.raised = "VkApiError"
  /\ ~IsTransportFailure(token_data)
  /\ token_data.error = Absent
  /\ token_data.access_token = ""
  /\ token_data.refresh_token = "R1"
  /\ pc = "done"

\* The configuration offers a refresh: VK_USER_TOKEN and both client
\* credentials are set.
RefreshUsable ==
  /\ env_refresh_token \notin {None, ""}
  /\ oauth_client_id \notin {None, ""}
  /\ oauth_client_secret \notin {None, ""}

\* C5 as stated: without a community token and without a usable refresh
\* token, main ends in failure and calls neither wall.post nor wall.edit.
C5_AsStated ==
  (~Truthy(group_token) /\ ~RefreshUsable) =>
     /\ Count(WallEps) = 0
     /\ pc = "done" => result \in Failure

\* C5, amended: without a community token, with VK_ACCESS_TOKEN not set, and
\* with no usable refresh token (VK_USER_TOKEN or a client credential missing,
\* or the refresh exchange failed), main calls neither wall.post nor wall.edit
\* and ends in failure: it returns 1 or the error leaves main.
C5_NoTokenAtAll ==
  (/\ ~Truthy(group_token)
   /\ env_access_token = None
   /\ ~RefreshUsable \/ refresh_result.raised \notin {"no", "not called"}) =>
     /\ Count(WallEps) = 0
     /\ pc = "done" => result \in Failure

C5_Witness ==
  /\ pc = "done"
  /\ ValidInvocation
  /\ ~Truthy(group_token)
  /\ env_access_token = None
  /\ env_refresh_token = "R0" /\ oauth_client_secret = None
  /\ image_sources = <<>> /\ ~Editing
  /\ result = "return 1"
  /\ calls = <<>>

\* The requests made for the image at position idx of the image list.
CountAt(eps, idx) == Cardinality({k \in CallsTo(eps) : calls[k].i = idx})

\* C6: in one run the token endpoint is called at most once,
\* photos.getWallUploadServer at most once, wall.post and wall.edit together
\* at most once, and each position of the image list is loaded, uploaded and
\* registered at most once; no request is made for a position outside the list.
C6_NoRetry ==
  /\ Count(TokenEp) <= 1
  /\ Count({"photos.getWallUploadServer"}) <= 1
  /\ Count(WallEps) <= 1
  /\ \A k \in CallsTo(LoadEps \cup {"upload", "photos.saveWallPhoto"}) :
       calls[k].i \in 1..Len(image_sources)
  /\ \A idx \in 1..Len(image_sources) :
       /\ CountAt(LoadEps, idx) <= 1
       /\ CountAt({"upload"}, idx) <= 1
       /\ CountAt({"photos.saveWallPhoto"}, idx) <= 1

C6_Witness ==
  /\ pc = "done"
  /\ result = "return 0"
  /\ Len(image_sources) >= 2
  /\ image_sources[1] = image_sources[2]
  /\ Count(TokenEp) = 1
  /\ Count({"photos.getWallUploadServer"}) = 1
  /\ Count({"photos.saveWallPhoto"}) = Len(image_sources)
  /\ Count(WallEps) = 1

\* The registration answers that gave an attachment, by position in the log.
Registered(k) ==
  /\ calls[k].ep = "photos.saveWallPhoto"
  /\ calls[k].data[1].kind = "ok"
  /\ calls[k].data[1].response # <<>>

\* upload_photos_for_wall has returned its list.
UploadReturned ==
  image_sources # <<>> /\ upload_error = "none" /\ pc \in {"select", "wall", "done"}
    /\ Count({"photos.getWallUploadServer"}) = 1

\* C7: the list upload_photos_for_wall builds has one string per registered
\* image, in the order of the image list: its idx-th string is
\* photo<owner_id>_<id> of the first photo object of the registration answer
\* for image_sources[idx], which was loaded from that source; when the function
\* has returned the list has as many strings as there are sources and follows
\* the ready-made attachments in main's list.
C7_OrderPreserved ==
  /\ \A k \in 1..Len(calls) : Registered(k) =>
       LET idx == calls[k].i
           photo_obj == calls[k].data[1].response[1]
       IN /\ idx \in 1..Len(uploaded)
          /\ uploaded[idx] = <<"photo", photo_obj.owner_id, "_", photo_obj.id>>
          /\ \E j \in 1..(k - 1) :
               /\ calls[j].ep \in LoadEps /\ calls[j].i = idx
               /\ calls[j].data[1] = image_sources[idx]
  /\ Len(uploaded) = Cardinality({k \in 1..Len(calls) : Registered(k)})
  /\ UploadReturned =>
       /\ Len(uploaded) = Len(image_sources)
       /\ attachments = args_attachments \o uploaded

C7_Witness ==
  /\ UploadReturned
  /\ pc = "done"
  /\ image_sources = <<"b.jpg", "http://a">>
  /\ uploaded = <<<<"photo", -8, "_", 2>>, <<"photo", -7, "_", 1>>>>
  /\ args_attachments # <<>>

\* A request of the upload that made upload_photos_for_wall raise.
FailedRequest(c) ==
  \/ c.ep = "photos.getWallUploadServer" /\ c.data[1] # "ok"
  \/ c.ep \in LoadEps /\ c.data[2] # "ok"
  \/ c.ep = "upload" /\ (IsTransportFailure(c.data[1])
                          \/ ~(c.data[1].photo /\ c.data[1].server /\ c.data[1].hash))
  \/ c.ep = "photos.saveWallPhoto"
       /\ (c.data[1].kind # "ok" \/ c.data[1].response = <<>>)

\* C8: a failed request of the upload (the upload server, the load of an
\* image, the POST, an answer without photo, server or hash, the registration)
\* is the last request of the run: nothing is loaded, uploaded, registered,
\* rolled back or posted after it, and main has returned 1.
C8_FailFast ==
  /\ \A k \in 1..Len(calls) : FailedRequest(calls[k]) =>
       /\ k = Len(calls)
       /\ pc = "done" /\ result = "return 1"
       /\ upload_error # "none"
       /\ Count(WallEps) = 0
  /\ upload_error # "none" =>
       /\ calls # <<>> /\ FailedRequest(calls[Len(calls)])
       /\ calls[Len(calls)].i = i
       /\ Len(uploaded) = IF i = 0 THEN 0 ELSE i - 1

C8_Witness ==
  /\ upload_error = "validate"
  /\ i = 2
  /\ Len(uploaded) = 1
  /\ Count({"photos.saveWallPhoto"}) = 1
  /\ calls[Len(calls)].ep = "upload"

(***************************************************************************)
(* Properties of get_vk_token.py                                           *)
(***************************************************************************)
\* The pasted text has, in its query or its fragment, a non-blank value for name.
HasParam(name) ==
  \E k \in 1..Len(redirect_url.query \o redirect_url.fragment) :
     LET p == (redirect_url.query \o redirect_url.fragment)[k]
     IN p[1] = name /\ p[2] # ""

\* C9: a run that got its configuration generates exactly one
\* verifier/challenge pair; the token endpoint is called at most once, only
\* for a pasted URL that has both code and device_id, with the code and
\* device_id parsed from it and with the one verifier generated, whose
\* challenge is the one in the authorization URL; after empty input or a
\* failed parse the token endpoint is never called.
C9_OneExchange ==
  /\ Len(generated) <= 1
  /\ (ppc # "start" /\ client_id = "cid") => Len(generated) = 1
  /\ Len(pkce_calls) <= 1
  /\ \A k \in 1..Len(pkce_calls) :
       /\ Len(generated) = 1
       /\ pkce_calls[k].code_verifier = generated[1][1]
       /\ auth_url.code_challenge = generated[1][2]
       /\ ~redirect_url.empty
       /\ HasParam("code") /\ HasParam("device_id")
       /\ pkce_calls[k].code = code /\ code \notin {None, ""}
       /\ pkce_calls[k].device_id = device_id /\ device_id \notin {None, ""}
  /\ (redirect_url.empty \/ ~HasParam("code") \/ ~HasParam("device_id"))
       => pkce_calls = <<>>
  /\ (ppc = "done" /\ pkce_calls = <<>>) => pkce_result \in {"exit 1", "return 1"}

C9_Witness ==
  /\ ppc = "done"
  /\ pkce_result = "return 0"
  /\ Len(pkce_calls) = 1
  /\ Len(generated) = 1
  /\ redirect_url.query = <<<<"code", "abc">>>>
  /\ redirect_url.fragment = <<<<"device_id", "42">>>>

\* C10 as stated: exchange_code_for_token raises an error with the service's
\* error and error_description whenever the answer has an error field, what it
\* returns has an access_token, and main returns 0 only with an access_token.
C10_AsStated ==
  exchange_result.raised # "not called" =>
    LET resp == exchange_result.token_data
    IN /\ (~IsTransportFailure(resp) /\ resp.error # Absent) =>
            /\ exchange_result.raised = "RuntimeError"
            /\ exchange_result.message = <<resp.error, Get(resp.error_description)>>
       /\ exchange_result.raised = "no" => resp.access_token \notin {Absent, None, ""}
       /\ pkce_result = "return 0" => resp.access_token \notin {Absent, None, ""}

\* The number of characters of a verifier.
VerifierLen(v) == v.len + v.pad

\* C11 as stated: for a length within 43..128 generate_code_verifier returns
\* a verifier of exactly that many characters, and for a length outside it
\* raises and produces none.
C11_AsStated ==
  produced # NoVerifier =>
    IF requested >= 43 /\ requested <= 128
      THEN produced.raised = "no" /\ VerifierLen(produced) = requested
      ELSE produced.raised = "ValueError" /\ VerifierLen(produced) = 0

\* The places of params that give name a non-blank value.
NonBlank(params, name) ==
  {k \in 1..Len(params) : params[k][1] = name /\ params[k][2] # ""}

\* The first non-blank value of name in params.
FirstValue(params, name) ==
  params[CHOOSE k \in NonBlank(params, name) :
           \A j \in NonBlank(params, name) : k <= j][2]

\* The value of name in the pasted URL: the query's when the query has one,
\* else the fragment's, else None.
QueryThenFragment(name) ==
  IF NonBlank(redirect_url.query, name) # {}
    THEN FirstValue(redirect_url.query, name)
    ELSE IF NonBlank(redirect_url.fragment, name) # {}
      THEN FirstValue(redirect_url.fragment, name)
      ELSE None

\* parse_redirect_url raised for the pasted URL.
ParseFailed ==
  \E k \in 1..Len(pkce_stderr) : pkce_stderr[k][1] = "ValueError"

\* C12: parse_redirect_url looks into the query and into the fragment: code
\* and device_id are each taken from the query when it gives the parameter a
\* value and from the fragment otherwise, so the two in the query, the two in
\* the fragment or one in each give the same pair, and the query wins when
\* both places have a value; the parse fails only when a parameter has a
\* value in neither place.
C12_QueryAndFragment ==
  /\ ppc \in {"exchange", "report"} \/ (ppc = "done" /\ pkce_calls # <<>>) =>
       /\ code = QueryThenFragment("code")
       /\ device_id = QueryThenFragment("device_id")
  /\ ParseFailed =>
       QueryThenFragment("code") = None \/ QueryThenFragment("device_id") = None

C12_Witness ==
  /\ ppc = "exchange"
  /\ redirect_url.query = <<<<"code", "abc">>>>
  /\ redirect_url.fragment = <<<<"code", "42">>, <<"device_id", "42">>>>
  /\ code = "abc"
  /\ device_id = "42"

\* C13: when parse_redirect_url fails its error names the missing parameter:
\* code when code has no non-empty value in the query or the fragment,
\* device_id when code has one and device_id has none; it returns a pair only
\* when both have a non-empty value, and it fails whenever one has none.
C13_MissingParameterNamed ==
  /\ \A k \in 1..Len(pkce_stderr) : pkce_stderr[k][1] = "ValueError" =>
       /\ pkce_stderr[k][2] \in {"code", "device_id"}
       /\ pkce_stderr[k][2] = "code" <=> ~HasParam("code")
       /\ pkce_stderr[k][2] = "device_id" <=>
            (HasParam("code") /\ ~HasParam("device_id"))
       /\ code = None /\ device_id = None
       /\ ppc = "done" /\ pkce_result = "return 1"
  /\ ppc \in {"exchange", "report"} =>
       /\ code \notin {None, ""} /\ device_id \notin {None, ""}
       /\ HasParam("code") /\ HasParam("device_id")
       /\ ~ParseFailed
  /\ (ppc = "done" /\ ~redirect_url.empty /\ ~(HasParam("code") /\ HasParam("device_id")))
       => ParseFailed

C13_Witness ==
  /\ ppc = "done"
  /\ pkce_stderr = <<<<"ValueError", "device_id">>>>
  /\ redirect_url.query = <<<<"code", "abc">>>>
  /\ redirect_url.fragment = <<<<"device_id", "">>>>

\* C14: when --edit names a post (args.edit is truthy), wall.post is never
\* called, every wall.edit carries the user access token, cached or obtained
\* by the refresh, and never the community token, whether or not a community
\* token is configured and images are requested; a run that got its user
\* token and its uploads has called wall.edit once when it ends.
C14_EditUsesUserToken ==
  (edit # <<>> /\ edit[1] # 0) =>
     /\ Count({"wall.post"}) = 0
     /\ \A k \in CallsTo({"wall.edit"}) :
          /\ calls[k].token = user_access_token
          /\ calls[k].token \notin {None, "", Unbound}
          /\ calls[k].token # group_token
          /\ calls[k].token = env_access_token
               \/ (Count(TokenEp) = 1 /\ calls[k].token = token_data.access_token)
          /\ calls[k].data[1] = edit[1]
     /\ (pc = "done" /\ upload_error = "none" /\ wall_token # Unbound)
          => Count({"wall.edit"}) = 1

C14_Witness ==
  /\ pc = "done"
  /\ result = "return 0"
  /\ edit = <<5>>
  /\ group_token = "G"
  /\ image_sources = <<>>
  /\ env_access_token = None
  /\ \E k \in CallsTo({"wall.edit"}) : calls[k].token = "U1"

\* C15 as stated: main never lets an exception out; every run ends with
\* main returning 0 or 1, and a run in which a step failed returns 1.
C15_AsStated ==
  /\ result # "raised"
  /\ pc = "done" => result \in {"return 0", "return 1"}
  /\ (upload_error # "none" \/ refresh_result.raised \notin {"no", "not called"})
       => result \in {"running", "return 1"}

====
